---- MODULE Spec2Model ----
(***************************************************************************)
(* Usage tracking and quota enforcement of the NoraAI REST gateway.        *)
(*                                                                         *)
(*   src/unnamed/part_001  usage-tracking middleware (usageStore,          *)
(*                         getTodayUsage, incrementUsage, checkUsageQuota, *)
(*                         addUsageStats)                                  *)
(*   src/unnamed/part_000  tier types and getTierFeatures                  *)
(*   src/src/index.ts      the four metered routes                         *)
(*                                                                         *)
(* Node runs every synchronous stretch of a request to completion, so one  *)
(* action is one such stretch: Route is checkUsageQuota -> addUsageStats   *)
(* -> the route handler up to its first await; Complete is the handler's   *)
(* continuation after the awaited model call.  The wall clock is read by   *)
(* `new Date()` several times inside one stretch; midnight (UTC) may fall  *)
(* between any two of these reads.                                         *)
(*                                                                         *)
(* Amounts of money are integers, in thousandths of a pound (0.008 -> 8).  *)
(* Dates (YYYY-MM-DD strings) are day numbers.                             *)
(***************************************************************************)
EXTENDS Integers, Sequences, FiniteSets, TLC

VARIABLES
    now,         \* the UTC day the wall clock shows
    usageStore,  \* Map<string, Usage>: key <<userId, day>> -> reference
    heap,        \* reference -> the Usage object it denotes
    pending,     \* requests whose handler is suspended at an await (a bag)
    last,        \* what the most recent synchronous stretch did; `before`
                 \* is ledger[userId, day].messages as the gate was entered,
                 \* `again` says that this stretch and the one before it
                 \* both sent a usage block for the same user and tier
    ledger,      \* per <<userId, day>>: the requests the gate counted then
    nonFree,     \* userIds that sent a request naming a tier other than free
    arrivals     \* requests routed so far (bounds the mixed-traffic runs)

vars == <<now, usageStore, heap, pending, last, ledger, nonFree, arrivals>>

----------------------------------------------------------------------------
(* Bounds of the exploration *)

MaxDay == 1        \* the clock runs over days 0..MaxDay
MaxRequests == 2   \* requests routed in a mixed-traffic run (Spec)
MaxInFlight == 2   \* handlers suspended at the same time
MaxVoice == 1      \* voice messages per record in a free-traffic run
MaxMessages == 22  \* messages counted in such a run, all days together

----------------------------------------------------------------------------
(* Program constants *)

GPT35_TEXT == 8
GPT4O_TEXT == 25
WHISPER_VOICE == 31
GPT4O_VISION == 45

FreeMaxMessagesPerDay == 20
FreeMaxImageAnalysisPerDay == 0
FeaturesFreeMaxMessagesPerDay == 50

Undefined == "undefined"

Types == {"text", "voice", "screenshot", "scam"}

\* const TIER_LIMITS = { free: ..., premium: ..., family: ... }; indexing it
\* with any other key yields undefined.
TIER_LIMITS(tier) ==
    CASE tier = "free" ->
           [defined |-> TRUE, maxMessagesPerDay |-> FreeMaxMessagesPerDay,
            maxImageAnalysisPerDay |-> FreeMaxImageAnalysisPerDay]
      [] tier \in {"premium", "family"} ->
           [defined |-> TRUE, maxMessagesPerDay |-> -1,
            maxImageAnalysisPerDay |-> -1]
      [] OTHER ->
           [defined |-> FALSE, maxMessagesPerDay |-> 0,
            maxImageAnalysisPerDay |-> 0]

\* getTierFeatures: everything but 'premium' gets the free feature set.
getTierFeatures(tier) ==
    IF tier = "premium"
    THEN [useAdvancedModel |-> TRUE, screenshotAnalysis |-> TRUE,
          scamDetection |-> TRUE, emergencyFeatures |-> TRUE,
          quickActions |-> TRUE, familyPortal |-> TRUE,
          maxMessagesPerDay |-> -1, maxImageAnalysisPerDay |-> -1]
    ELSE [useAdvancedModel |-> FALSE, screenshotAnalysis |-> FALSE,
          scamDetection |-> FALSE, emergencyFeatures |-> FALSE,
          quickActions |-> FALSE, familyPortal |-> FALSE,
          maxMessagesPerDay |-> FeaturesFreeMaxMessagesPerDay,
          maxImageAnalysisPerDay |-> 0]

----------------------------------------------------------------------------
(* Requests.  req.body is absent (hasBody = FALSE) or carries userId and   *)
(* userContext; userContext is absent, an object with a tier field, or -   *)
(* on the multipart routes - the JSON text of such an object.              *)

TierValues == {"free", "premium", "family", "gold"}

BodylessRequests ==
    [hasBody : {FALSE}, userId : {Undefined}, ctxKind : {"absent"},
     ctxTier : {Undefined}, type : Types]

BodyRequests ==
    [hasBody : {TRUE}, userId : {"alice", Undefined}, ctxKind : {"absent"},
     ctxTier : {Undefined}, type : Types]
    \cup
    [hasBody : {TRUE}, userId : {"alice", Undefined}, ctxKind : {"object"},
     ctxTier : TierValues, type : Types]
    \cup
    [hasBody : {TRUE}, userId : {"alice", Undefined}, ctxKind : {"string"},
     ctxTier : {"premium"}, type : Types]

Requests == BodylessRequests \cup BodyRequests

UserIds == {"alice", "anonymous"}
Days == 0..MaxDay
Keys == UserIds \X Days

----------------------------------------------------------------------------
(* The usage store *)

\* A key that leaves the user out (what getUsageKey must not be).
getUsageKeyShared(userId, today) == <<"anonymous", today>>

getUsageKey(userId, today) == <<userId, today>>

NewUsage(date) ==
    [date |-> date, textMessages |-> 0, voiceMessages |-> 0,
     screenshotAnalysis |-> 0, scamDetections |-> 0, totalCost |-> 0]

\* A lookup that starts a new record at every call (what getTodayUsage
\* must not be).
getTodayUsageFresh(st, userId, keyDay, dateDay) ==
    [st |-> [store |-> (<<userId, keyDay>> :> <<userId, keyDay>>) @@ st.store,
             heap |-> (<<userId, keyDay>> :> NewUsage(dateDay)) @@ st.heap],
     ref |-> <<userId, keyDay>>]

\* A store state is [store, heap].  keyDay and dateDay are the two clock
\* reads of getTodayUsage (the second happens only when a record is made).
\* A new object is referred to by the key it is first stored under: keys
\* are never deleted, so no key sees two creations.
getTodayUsage(st, userId, keyDay, dateDay) ==
    IF getUsageKey(userId, keyDay) \in DOMAIN st.store
    THEN [st |-> st, ref |-> st.store[getUsageKey(userId, keyDay)]]
    ELSE [st |-> [store |-> (getUsageKey(userId, keyDay)
                               :> getUsageKey(userId, keyDay)) @@ st.store,
                  heap |-> (getUsageKey(userId, keyDay)
                               :> NewUsage(dateDay)) @@ st.heap],
          ref |-> getUsageKey(userId, keyDay)]

CostOf(type, tier) ==
    CASE type = "text" -> IF tier = "free" THEN GPT35_TEXT ELSE GPT4O_TEXT
      [] type = "voice" -> WHISPER_VOICE
      [] type = "screenshot" -> GPT4O_VISION
      [] type = "scam" -> GPT4O_VISION
      [] OTHER -> 0

\* A count that books every message as a text message (what CountRequest
\* must not be).
CountRequestAsText(usage, type) ==
    CASE type \in {"text", "voice"} -> [usage EXCEPT !.textMessages = @ + 1]
      [] type = "screenshot" -> [usage EXCEPT !.screenshotAnalysis = @ + 1]
      [] type = "scam" -> [usage EXCEPT !.scamDetections = @ + 1]
      [] OTHER -> usage

CountRequest(usage, type) ==
    CASE type = "text" -> [usage EXCEPT !.textMessages = @ + 1]
      [] type = "voice" -> [usage EXCEPT !.voiceMessages = @ + 1]
      [] type = "screenshot" -> [usage EXCEPT !.screenshotAnalysis = @ + 1]
      [] type = "scam" -> [usage EXCEPT !.scamDetections = @ + 1]
      [] OTHER -> usage

ChargeRequest(usage, type, tier) ==
    [CountRequest(usage, type) EXCEPT !.totalCost = @ + CostOf(type, tier)]

\* usageStore.set(key, usage) on the store state g.st, for the object g.ref
\* that getTodayUsage returned and incrementUsage changed in place.
StoreUsage(g, usage, key) ==
    [store |-> (key :> g.ref) @@ g.st.store,
     heap |-> [g.st.heap EXCEPT ![g.ref] = usage]]

\* incrementUsage: the object getTodayUsage returns is changed in place and
\* then stored under a key computed from a fresh clock read (setDay).
IncrementIn(g, userId, type, tier, setDay) ==
    StoreUsage(g, ChargeRequest(g.st.heap[g.ref], type, tier),
               getUsageKey(userId, setDay))

incrementUsage(st, userId, type, tier, keyDay, dateDay, setDay) ==
    IncrementIn(getTodayUsage(st, userId, keyDay, dateDay),
                userId, type, tier, setDay)

----------------------------------------------------------------------------
(* Responses.  A response is what res.status(..).json(..) sent; status 0   *)
(* means nothing was sent in this stretch.                                 *)

Unlimited == [unlimited |-> TRUE, n |-> 0]
Limited(n) == [unlimited |-> FALSE, n |-> n]

NoUsage ==
    [present |-> FALSE, messages |-> 0, limit |-> Limited(0),
     remaining |-> Limited(0), cost |-> 0]

Payload(status, upgradePrompt, requiresPremium, limit, current) ==
    [status |-> status, upgradePrompt |-> upgradePrompt,
     requiresPremium |-> requiresPremium, limit |-> limit,
     current |-> current, usage |-> NoUsage]

NoResponse == Payload(0, FALSE, FALSE, 0, 0)

\* Number.prototype.toFixed(4): the amount with four fraction digits, here
\* the number of ten-thousandths those digits spell.
ToFixed4(thousandths) == thousandths * 10

Max0(n) == IF n > 0 THEN n ELSE 0

----------------------------------------------------------------------------
(* checkUsageQuota: reading the request *)

GateUserContextTier(req) ==
    IF req.ctxKind = "object" /\ req.ctxTier # Undefined
    THEN req.ctxTier
    ELSE "free"

GateUserId(req) == IF req.userId = Undefined THEN "anonymous" ELSE req.userId

OverMessageLimit(usage, limits) ==
    usage.textMessages + usage.voiceMessages >= limits.maxMessagesPerDay

QuotaExceededPayload(usage, limits) ==
    Payload(429, TRUE, FALSE, limits.maxMessagesPerDay,
            usage.textMessages + usage.voiceMessages)

FeatureNotAvailablePayload == Payload(403, FALSE, TRUE, 0, 0)

\* A gate that tests the message limit before it looks at the request's
\* type (what GateBranch must not be).
GateBranchQuotaFirst(req, usage) ==
    IF GateUserContextTier(req) = "free"
    THEN IF OverMessageLimit(usage, TIER_LIMITS("free"))
         THEN "quota"
         ELSE IF req.type \in {"screenshot", "scam"}
              THEN "feature"
              ELSE "passed"
    ELSE "passed"

\* Which branch of the try block a request takes, given today's record.
GateBranch(req, usage) ==
    IF GateUserContextTier(req) = "free"
    THEN IF req.type \in {"text", "voice"}
              /\ OverMessageLimit(usage, TIER_LIMITS("free"))
         THEN "quota"
         ELSE IF req.type \in {"screenshot", "scam"}
              THEN "feature"
              ELSE "passed"
    ELSE "passed"

\* Orders the branches must not have: the handler started before the
\* store is incremented, and a catch block that does not forward.
PassedBranchHandlerFirst == <<"next", "increment">>
CatchBranchSilent == <<"respond">>

\* What each branch does, in program order.
QuotaBranch == <<"respond">>
FeatureBranch == <<"respond">>
PassedBranch == <<"increment", "next">>
CatchBranch == <<"next">>

----------------------------------------------------------------------------
(* addUsageStats: the res.json wrapper *)

DecoratorTier(req) ==
    IF req.ctxKind = "object" /\ req.ctxTier # Undefined
    THEN req.ctxTier
    ELSE "free"

DecoratorUserId(req) ==
    IF req.userId = Undefined THEN "anonymous" ELSE req.userId

UsageBlock(usage, limits) ==
    [present |-> TRUE,
     messages |-> usage.textMessages + usage.voiceMessages,
     limit |-> IF limits.maxMessagesPerDay = -1
               THEN Unlimited
               ELSE Limited(limits.maxMessagesPerDay),
     remaining |-> IF limits.maxMessagesPerDay = -1
                   THEN Unlimited
                   ELSE Limited(Max0(limits.maxMessagesPerDay
                            - (usage.textMessages + usage.voiceMessages))),
     cost |-> ToFixed4(usage.totalCost)]

\* The wrapper once getTodayUsage has returned g.
DecorateWith(g, limits, data) ==
    IF ~limits.defined
    THEN [st |-> g.st, threw |-> TRUE, resp |-> NoResponse]
    ELSE [st |-> g.st, threw |-> FALSE,
          resp |-> [data EXCEPT !.usage = UsageBlock(g.st.heap[g.ref], limits)]]

\* One call of the wrapped res.json.  It throws a TypeError when req.body
\* is undefined (before the store is read) and when TIER_LIMITS has no
\* entry for the tier (after getTodayUsage, which may have made a record).
JsonWithUsage(st, req, data, keyDay, dateDay) ==
    IF ~req.hasBody
    THEN [st |-> st, threw |-> TRUE, resp |-> NoResponse]
    ELSE DecorateWith(getTodayUsage(st, DecoratorUserId(req), keyDay, dateDay),
                      TIER_LIMITS(DecoratorTier(req)), data)

InternalErrorPayload == Payload(500, FALSE, FALSE, 0, 0)

Sent(a, threwBefore) ==
    [st |-> a.st, resp |-> a.resp,
     threw |-> threwBefore + (IF a.threw THEN 1 ELSE 0)]

\* res.status(..).json(..) called from a catch block: a throw of the
\* wrapper leaves the async handler's promise rejected, nothing is sent.
\* clk[i] is the i-th clock read of the stretch.
SendInCatch(st, req, data, clk, i) ==
    Sent(JsonWithUsage(st, req, data, clk[i], clk[i + 1]), 0)

Rescue(a, req, clk, i) ==
    IF ~a.threw
    THEN Sent(a, 0)
    ELSE Sent(JsonWithUsage(a.st, req, InternalErrorPayload,
                            clk[i + 2], clk[i + 3]), 1)

\* res.json(data) inside a handler's try block: when the wrapper throws,
\* the handler's catch block calls res.status(500).json(..), which is the
\* wrapper again.
SendInTry(st, req, data, clk, i) ==
    Rescue(JsonWithUsage(st, req, data, clk[i], clk[i + 1]), req, clk, i)

----------------------------------------------------------------------------
(* The route handlers of index.ts, up to their first await *)

\* The tier the handler goes by.  /api/chat reads userContext?.tier as it
\* is; the multipart routes JSON.parse a userContext that is a string.
HandlerTier(req) ==
    CASE req.ctxTier = Undefined -> "free"
      [] req.ctxKind = "object" -> req.ctxTier
      [] req.ctxKind = "string" /\ req.type # "text" -> req.ctxTier
      [] OTHER -> "free"

HasFeature(req) ==
    CASE req.type = "screenshot" ->
           getTierFeatures(HandlerTier(req)).screenshotAnalysis
      [] req.type = "scam" -> getTierFeatures(HandlerTier(req)).scamDetection
      [] OTHER -> TRUE

Answered(s) ==
    [st |-> s.st, resp |-> s.resp, threw |-> s.threw, awaiting |-> FALSE]

\* Clock reads 6..9 of the stretch belong to the handler's res.json calls.
\* Destructuring an undefined req.body throws; the catch block answers 500.
HandlerStart(st, req, clk) ==
    IF ~req.hasBody
    THEN Answered(SendInCatch(st, req, InternalErrorPayload, clk, 6))
    ELSE IF ~HasFeature(req)
         THEN Answered(SendInTry(st, req, FeatureNotAvailablePayload, clk, 6))
         ELSE [st |-> st, resp |-> NoResponse, threw |-> 0,
               awaiting |-> TRUE]

----------------------------------------------------------------------------
(* checkUsageQuota(type)(req, res, next), with what next() runs *)

Outcome(st, verdict) ==
    [st |-> st, verdict |-> verdict, resp |-> NoResponse, events |-> <<>>,
     threw |-> 0, counted |-> FALSE, awaiting |-> FALSE, nexts |-> 0]

\* next(): addUsageStats wraps res.json and the handler runs.
Forwarded(acc, h) ==
    [acc EXCEPT
       !.st = h.st,
       !.resp = IF @.status = 0 THEN h.resp ELSE @,
       !.threw = @ + h.threw,
       !.awaiting = h.awaiting,
       !.nexts = @ + 1,
       !.events = @ \o <<"next", "handler">>]

\* One statement of a branch.  Clock reads 3..5 are incrementUsage's.
Exec(step, acc, req, answer, clk) ==
    CASE step = "increment" ->
           [acc EXCEPT
              !.st = incrementUsage(acc.st, GateUserId(req), req.type,
                                    GateUserContextTier(req),
                                    clk[3], clk[4], clk[5]),
              !.counted = TRUE,
              !.events = Append(@, "increment")]
      [] step = "respond" ->
           [acc EXCEPT
              !.resp = IF @.status = 0 THEN answer ELSE @,
              !.events = Append(@, "respond")]
      [] step = "next" -> Forwarded(acc, HandlerStart(acc.st, req, clk))
      [] OTHER -> acc

ExecAt(i, steps, acc, req, answer, clk) ==
    IF i <= Len(steps) THEN Exec(steps[i], acc, req, answer, clk) ELSE acc

\* The statements of a branch, in order (a branch has at most three).
Run(steps, acc, req, answer, clk) ==
    ExecAt(3, steps,
           ExecAt(2, steps,
                  ExecAt(1, steps, acc, req, answer, clk),
                  req, answer, clk),
           req, answer, clk)

BranchSteps(branch) ==
    CASE branch = "quota" -> QuotaBranch
      [] branch = "feature" -> FeatureBranch
      [] OTHER -> PassedBranch

BranchAnswer(branch, usage) ==
    CASE branch = "quota" -> QuotaExceededPayload(usage, TIER_LIMITS("free"))
      [] branch = "feature" -> FeatureNotAvailablePayload
      [] OTHER -> NoResponse

\* The try block from line 120 on: g is what getTodayUsage returned.
TryBlock(g, req, clk) ==
    Run(BranchSteps(GateBranch(req, g.st.heap[g.ref])),
        Outcome(g.st, GateBranch(req, g.st.heap[g.ref])), req,
        BranchAnswer(GateBranch(req, g.st.heap[g.ref]), g.st.heap[g.ref]),
        clk)

\* Reading req.body.userContext throws when req.body is undefined: the
\* catch block is all that runs then.  Clock reads 1..2 are the gate's.
checkUsageQuota(st, req, clk) ==
    IF ~req.hasBody
    THEN Run(CatchBranch, Outcome(st, "failopen"), req, NoResponse, clk)
    ELSE TryBlock(getTodayUsage(st, GateUserId(req), clk[1], clk[2]),
                  req, clk)

----------------------------------------------------------------------------
(* State *)

EmptyMap == [x \in {} |-> 0]

BagSize(b) ==
    Cardinality({p \in (DOMAIN b) \X (1..MaxInFlight + 1) : p[2] <= b[p[1]]})

BagAdd(b, e) ==
    IF e \in DOMAIN b THEN [b EXCEPT ![e] = @ + 1] ELSE (e :> 1) @@ b

BagRemove(b, e) ==
    IF b[e] > 1
    THEN [b EXCEPT ![e] = @ - 1]
    ELSE [x \in DOMAIN b \ {e} |-> b[x]]

NoRequest ==
    [hasBody |-> FALSE, userId |-> Undefined, ctxKind |-> "absent",
     ctxTier |-> Undefined, type |-> "text"]

\* `new Date()` calls one stretch can make: two in the gate's getTodayUsage,
\* three in incrementUsage, two in each of the handler's two res.json calls.
NSites == 9

\* The clock reads of one stretch when midnight falls just before read t
\* (t = 0: midnight does not fall inside the stretch).
Clock(t) == [i \in 1..NSites |-> IF t # 0 /\ i >= t THEN now + 1 ELSE now]

Ticks(n) == {0} \cup (IF now < MaxDay THEN 2..n ELSE {})

Init ==
    /\ now = 0
    /\ usageStore = EmptyMap
    /\ heap = EmptyMap
    /\ pending = EmptyMap
    /\ last = [op |-> "init", req |-> NoRequest, day |-> 0,
               verdict |-> "none", resp |-> NoResponse, events |-> <<>>,
               threw |-> 0, counted |-> FALSE, awaiting |-> FALSE,
               nexts |-> 0, before |-> 0, again |-> FALSE]
    /\ ledger = [k \in Keys |-> [messages |-> 0, cost |-> 0, requests |-> 0]]
    /\ nonFree = {}
    /\ arrivals = 0

\* The cost the accounting is meant to add for a request.
ExpectedCost(type, tier) ==
    CASE type = "text" -> IF tier = "free" THEN GPT35_TEXT ELSE GPT4O_TEXT
      [] type = "voice" -> WHISPER_VOICE
      [] OTHER -> GPT4O_VISION

Counted(entry, req) ==
    [messages |-> entry.messages
                    + (IF req.type \in {"text", "voice"} THEN 1 ELSE 0),
     cost |-> entry.cost + ExpectedCost(req.type, GateUserContextTier(req)),
     requests |-> entry.requests + 1]

RouteStep(req, t) ==
    \E r \in {checkUsageQuota([store |-> usageStore, heap |-> heap],
                              req, Clock(t))} :
        /\ r.awaiting => BagSize(pending) < MaxInFlight
        /\ usageStore' = r.st.store
        /\ heap' = r.st.heap
        /\ now' = IF t = 0 THEN now ELSE now + 1
        /\ pending' = IF r.awaiting THEN BagAdd(pending, req) ELSE pending
        /\ last' = [op |-> "route", req |-> req, day |-> Clock(t)[1],
                    verdict |-> r.verdict, resp |-> r.resp,
                    events |-> r.events, threw |-> r.threw,
                    counted |-> r.counted, awaiting |-> r.awaiting,
                    nexts |-> r.nexts,
                    before |-> ledger[<<GateUserId(req), Clock(t)[1]>>]
                                  .messages,
                    again |-> FALSE]
        /\ ledger' = IF r.counted
                     THEN [ledger EXCEPT ![<<GateUserId(req), Clock(t)[3]>>]
                                            = Counted(@, req)]
                     ELSE ledger
        /\ nonFree' = IF req.hasBody /\ req.ctxTier \notin {"free", Undefined}
                      THEN nonFree \cup {GateUserId(req)}
                      ELSE nonFree

UpstreamOutcomes(req) ==
    IF req.type \in {"text", "voice"}
    THEN {"ok", "error", "ratelimited"}
    ELSE {"ok", "error"}

Settled(st, req, outcome, clk) ==
    CASE outcome = "ok" ->
           SendInTry(st, req, Payload(200, FALSE, FALSE, 0, 0), clk, 1)
      [] outcome = "ratelimited" ->
           SendInCatch(st, req, Payload(503, FALSE, FALSE, 0, 0), clk, 1)
      [] OTHER ->
           SendInCatch(st, req, InternalErrorPayload, clk, 1)

\* The handler's continuation once the awaited model call has settled.
CompleteStep(req, outcome, t) ==
    \E s \in {Settled([store |-> usageStore, heap |-> heap], req, outcome,
                      Clock(t))} :
        /\ usageStore' = s.st.store
        /\ heap' = s.st.heap
        /\ now' = IF t = 0 THEN now ELSE now + 1
        /\ pending' = BagRemove(pending, req)
        /\ last' = [op |-> "complete", req |-> req, day |-> Clock(t)[1],
                    verdict |-> "none", resp |-> s.resp, events |-> <<>>,
                    threw |-> s.threw, counted |-> FALSE,
                    awaiting |-> FALSE, nexts |-> 0, before |-> 0,
                    again |-> /\ last.op = "complete"
                              /\ last.resp.usage.present
                              /\ s.resp.usage.present
                              /\ DecoratorUserId(last.req)
                                    = DecoratorUserId(req)
                              /\ DecoratorTier(last.req) = DecoratorTier(req)]
        /\ UNCHANGED <<ledger, nonFree>>

\* A request arrives on one of the four metered routes.
Route ==
    \E req \in Requests, t \in Ticks(NSites) :
        /\ arrivals < MaxRequests
        /\ RouteStep(req, t)
        /\ arrivals' = arrivals + 1

Complete ==
    \E req \in DOMAIN pending :
        \E outcome \in UpstreamOutcomes(req), t \in Ticks(4) :
            /\ CompleteStep(req, outcome, t)
            /\ UNCHANGED arrivals

\* Midnight passes while no handler is running.
Midnight ==
    /\ now < MaxDay
    /\ now' = now + 1
    /\ UNCHANGED <<usageStore, heap, pending, last, ledger, nonFree, arrivals>>

Next == Route \/ Complete \/ Midnight

Spec == Init /\ [][Next]_vars

----------------------------------------------------------------------------
(* Free traffic: one userId whose requests all carry tier 'free', as many  *)
(* of them as the caps allow (the gate itself caps the messages of a day). *)

FreeRequests ==
    [hasBody : {TRUE}, userId : {"alice"}, ctxKind : {"object"},
     ctxTier : {"free"}, type : Types]

MessagesCounted(h) ==
    Cardinality({p \in (DOMAIN h) \X (1..MaxMessages + 1) :
                   p[2] <= h[p[1]].textMessages + h[p[1]].voiceMessages})

WithinCaps(h) ==
    /\ MessagesCounted(h) <= MaxMessages
    /\ \A r \in DOMAIN h : h[r].voiceMessages <= MaxVoice

FreeRoute ==
    \E req \in FreeRequests, t \in Ticks(NSites) :
        /\ RouteStep(req, t)
        /\ WithinCaps(heap')
        /\ UNCHANGED arrivals

NextFree == FreeRoute \/ Complete \/ Midnight

SpecQuota == Init /\ [][NextFree]_vars

----------------------------------------------------------------------------
(* Multipart traffic of a premium user: the three routes behind multer,    *)
(* where the client sends userContext as the JSON text of the object.      *)

MultipartRequests ==
    [hasBody : {TRUE}, userId : {"alice"}, ctxKind : {"string"},
     ctxTier : {"premium"}, type : {"voice", "screenshot", "scam"}]

MultipartRoute ==
    \E req \in MultipartRequests, t \in Ticks(NSites) :
        /\ RouteStep(req, t)
        /\ MessagesCounted(heap') <= MaxMessages
        /\ UNCHANGED arrivals

NextMultipart == MultipartRoute \/ Complete \/ Midnight

SpecMultipart == Init /\ [][NextMultipart]_vars

----------------------------------------------------------------------------
(* Properties *)

ZeroCounters(u) ==
    /\ u.textMessages = 0
    /\ u.voiceMessages = 0
    /\ u.screenshotAnalysis = 0
    /\ u.scamDetections = 0
    /\ u.totalCost = 0

\* The step changes no counter and no cost: every key keeps its record,
\* every record keeps its contents, a record the step makes is all zero.
CountersKept ==
    /\ \A k \in DOMAIN usageStore :
          k \in DOMAIN usageStore' /\ usageStore'[k] = usageStore[k]
    /\ \A r \in DOMAIN heap : r \in DOMAIN heap' /\ heap'[r] = heap[r]
    /\ \A r \in DOMAIN heap' \ DOMAIN heap : ZeroCounters(heap'[r])

MessageRequest(req) == req.hasBody /\ req.type \in {"text", "voice"}
ImageRequest(req) == req.hasBody /\ req.type \in {"screenshot", "scam"}

\* C1: for a userId whose requests all carry tier free, a text or voice
\* request is rejected for quota (429, upgradePrompt) when the gate has
\* accepted 20 text and voice requests of that user on that day, and is not
\* rejected for quota when it has accepted fewer.
C1QuotaExactlyAtLimit ==
    (/\ last.op = "route"
     /\ MessageRequest(last.req)
     /\ GateUserId(last.req) \notin nonFree)
    => /\ last.before = FreeMaxMessagesPerDay
            => /\ last.verdict = "quota"
               /\ last.resp.status = 429
               /\ last.resp.upgradePrompt
       /\ last.before < FreeMaxMessagesPerDay => last.verdict # "quota"

\* C2: a free-tier screenshot or scam request is rejected by the gate with
\* 403 and requiresPremium, whatever the user's prior usage, is not counted
\* and not forwarded, and changes no counter and no totalCost.
C2FreeImageRejected ==
    [][(/\ last'.op = "route"
        /\ ImageRequest(last'.req)
        /\ GateUserContextTier(last'.req) = "free")
       => /\ last'.verdict = "feature"
          /\ last'.resp.status = 403
          /\ last'.resp.requiresPremium
          /\ ~last'.counted
          /\ last'.nexts = 0
          /\ CountersKept]_vars

C2RejectedAtLimit ==
    /\ last.op = "route"
    /\ ImageRequest(last.req)
    /\ last.verdict = "feature"
    /\ last.resp.status = 403
    /\ last.before >= FreeMaxMessagesPerDay

\* C3: no request of a premium-tier user is answered with 429.
C3PremiumNeverOverQuota ==
    (last.op = "route" /\ last.req.hasBody /\ last.req.ctxTier = "premium")
    => last.resp.status # 429

\* C4: the totalCost of the record stored for a (userId, day) is the sum of
\* the cost constants of the requests the gate accepted for that user-day,
\* and the totalCost of no stored record decreases in a step.
C4CostIsSumOfAccepted ==
    [][/\ \A k \in DOMAIN usageStore' :
             heap'[usageStore'[k]].totalCost = ledger'[k].cost
       /\ \A k \in DOMAIN usageStore :
             heap'[usageStore'[k]].totalCost
                >= heap[usageStore[k]].totalCost]_vars

\* C5: a gate or decorator step for a request of one userId leaves every
\* record of every other userId as it was, and makes no record for another
\* userId.
C5OtherUsersUntouched ==
    [][/\ \A k \in DOMAIN usageStore :
             k[1] # GateUserId(last'.req)
             => /\ k \in DOMAIN usageStore'
                /\ usageStore'[k] = usageStore[k]
                /\ heap'[usageStore'[k]] = heap[usageStore[k]]
       /\ \A k \in DOMAIN usageStore' \ DOMAIN usageStore :
             k[1] = GateUserId(last'.req)]_vars

C5BothUsersCounted ==
    /\ last.op = "route"
    /\ last.counted
    /\ GateUserId(last.req) = "alice"
    /\ \E k \in DOMAIN usageStore :
          k[1] = "anonymous" /\ heap[usageStore[k]].totalCost > 0

\* C6: the record stored under key userId:d has date d, is stored under no
\* other day's key of that user, and has all-zero counters as long as no
\* request was counted for that user-day.
C6RecordBelongsToItsDay ==
    \A k \in DOMAIN usageStore :
        /\ heap[usageStore[k]].date = k[2]
        /\ \A j \in DOMAIN usageStore :
              (j[1] = k[1] /\ j # k) => usageStore[j] # usageStore[k]
        /\ ledger[k].requests = 0 => ZeroCounters(heap[usageStore[k]])

\* C7: a request the gate rejects (429 or 403) is not forwarded and not
\* counted; only a passed (or failed-open) request reaches the handler; for
\* a passed request the increment comes before the handler starts.
C7HandlerOnlyAfterPass ==
    last.op = "route"
    => /\ last.verdict \in {"quota", "feature"}
            => /\ last.nexts = 0
               /\ ~last.counted
               /\ last.events = <<"respond">>
               /\ last.resp.status \in {429, 403}
       /\ last.nexts > 0 => last.verdict \in {"passed", "failopen"}
       /\ last.verdict = "passed"
            => /\ last.counted
               /\ last.events = <<"increment", "next", "handler">>

C7PassedAndForwarded ==
    /\ last.op = "route"
    /\ last.verdict = "passed"
    /\ last.counted
    /\ last.awaiting

\* C8: when the gate's try block throws, no 429 and no 403 is sent, nothing
\* is counted and the request is forwarded exactly once.
C8FailOpen ==
    (last.op = "route" /\ last.verdict = "failopen")
    => /\ last.nexts = 1
       /\ last.resp.status \notin {429, 403}
       /\ last.events = <<"next", "handler">>
       /\ ~last.counted

C8ForwardedAfterError ==
    /\ last.op = "route"
    /\ last.verdict = "failopen"
    /\ last.nexts = 1

\* C9: for a tier value other than free, premium and family the feature
\* flags are those of free, the gate decides as for free (a screenshot or
\* scam request is rejected as a premium feature), a usage block reports
\* the free limit, and nothing throws.
C9UnknownTierIsFree ==
    (/\ last.op \in {"route", "complete"}
     /\ last.req.hasBody
     /\ last.req.ctxKind = "object"
     /\ last.req.ctxTier \notin {"free", "premium", "family", Undefined})
    => /\ getTierFeatures(last.req.ctxTier) = getTierFeatures("free")
       /\ (last.op = "route" /\ ImageRequest(last.req))
            => last.verdict = "feature"
       /\ last.resp.usage.present
            => last.resp.usage.limit = Limited(FreeMaxMessagesPerDay)
       /\ last.threw = 0

\* A stretch that is the second of two applications of the decorator in a
\* row for one user and tier.
SecondApplication ==
    /\ last.op = "complete"
    /\ last'.op = "complete"
    /\ pending' # pending
    /\ last'.again

\* C10: two applications of the decorator in a row for the same user and
\* tier, on the same UTC day and with no gate step between them, report the
\* same usage block, and an application changes no counter and no totalCost.
C10SameDaySameBlock ==
    [][/\ (SecondApplication /\ last'.day = last.day)
            => last'.resp.usage = last.resp.usage
       /\ (last'.op = "complete" /\ pending' # pending) => CountersKept]_vars

\* C10 as stated, whatever the day of either application.
C10SameBlock ==
    [][/\ SecondApplication => last'.resp.usage = last.resp.usage
       /\ (last'.op = "complete" /\ pending' # pending) => CountersKept]_vars

C10ReadTwice ==
    /\ last.op = "complete"
    /\ last.again
    /\ last.resp.usage.messages > 0

MessagesOf(u) == u.textMessages + u.voiceMessages

\* The limit and the remaining allowance a usage block is to report for a
\* tier's maxMessagesPerDay and a message count.
LimitToReport(max) == IF max = -1 THEN Unlimited ELSE Limited(max)

RemainingToReport(max, messages) ==
    IF max = -1 THEN Unlimited ELSE Limited(Max0(max - messages))

\* C11: the usage block of a decorated response reports the messages of a
\* stored record of the user, the maxMessagesPerDay of the tier the request
\* is served under as its limit, and max(0, limit - messages) as remaining
\* ('unlimited' for both when that limit is -1); remaining is never
\* negative.
C11UsageBlockOfTier ==
    last.resp.usage.present
    => /\ \E k \in DOMAIN usageStore :
             /\ k[1] = DecoratorUserId(last.req)
             /\ last.resp.usage.messages = MessagesOf(heap[usageStore[k]])
       /\ last.resp.usage.limit
            = LimitToReport(TIER_LIMITS(HandlerTier(last.req))
                               .maxMessagesPerDay)
       /\ last.resp.usage.remaining
            = RemainingToReport(TIER_LIMITS(HandlerTier(last.req))
                                   .maxMessagesPerDay,
                                last.resp.usage.messages)
       /\ last.resp.usage.remaining.n >= 0

\* C12: for the tiers free and premium, the two limits getTierFeatures
\* returns are those of TIER_LIMITS for the tier a request is served under.
C12FeatureLimitsMatchTierLimits ==
    (last.op = "route" /\ HandlerTier(last.req) \in {"free", "premium"})
    => /\ getTierFeatures(HandlerTier(last.req)).maxMessagesPerDay
            = TIER_LIMITS(HandlerTier(last.req)).maxMessagesPerDay
       /\ getTierFeatures(HandlerTier(last.req)).maxImageAnalysisPerDay
            = TIER_LIMITS(HandlerTier(last.req)).maxImageAnalysisPerDay

Up(type, t) == IF type = t THEN 1 ELSE 0

\* Record v is record u with the counter of `type` one higher and the other
\* three counters as they were.
OneCounterUp(type, u, v) ==
    /\ v.textMessages = u.textMessages + Up(type, "text")
    /\ v.voiceMessages = u.voiceMessages + Up(type, "voice")
    /\ v.screenshotAnalysis = u.screenshotAnalysis + Up(type, "screenshot")
    /\ v.scamDetections = u.scamDetections + Up(type, "scam")

SameCounters(u, v) ==
    /\ v.textMessages = u.textMessages
    /\ v.voiceMessages = u.voiceMessages
    /\ v.screenshotAnalysis = u.screenshotAnalysis
    /\ v.scamDetections = u.scamDetections

NoCounterLower(u, v) ==
    /\ v.textMessages >= u.textMessages
    /\ v.voiceMessages >= u.voiceMessages
    /\ v.screenshotAnalysis >= u.screenshotAnalysis
    /\ v.scamDetections >= u.scamDetections

\* The record r was before the step (all zero when the step makes it).
Before(r) == IF r \in DOMAIN heap THEN heap[r] ELSE NewUsage(0)

\* C13: a step in which the gate accepts a request raises the counter of
\* the request's type by one in exactly one record and leaves every other
\* counter of every record as it was; no step removes a key or lowers a
\* counter of the record stored under a key.
C13OneCounterPerRequest ==
    [][/\ (arrivals' # arrivals /\ last'.counted)
            => \E r \in DOMAIN heap' :
                  /\ OneCounterUp(last'.req.type, Before(r), heap'[r])
                  /\ \A q \in DOMAIN heap' \ {r} :
                        SameCounters(Before(q), heap'[q])
       /\ \A k \in DOMAIN usageStore :
             /\ k \in DOMAIN usageStore'
             /\ NoCounterLower(heap[usageStore[k]], heap'[usageStore'[k]])]_vars

C13SecondCounterOfRecord ==
    /\ last.op = "route"
    /\ last.counted
    /\ last.req.type = "voice"
    /\ \E r \in DOMAIN heap :
          heap[r].voiceMessages = 1 /\ heap[r].scamDetections = 1

RequestsOf(u) ==
    u.textMessages + u.voiceMessages + u.screenshotAnalysis + u.scamDetections

\* C14: whatever the interleaving of the requests in flight, the four
\* counters of the record stored for a (userId, day) add up to the number of
\* requests the gate accepted for that user-day, and the messages of a
\* record of a userId whose requests all carry tier free never exceed 20.
C14NoLostUpdate ==
    \A k \in DOMAIN usageStore :
        /\ RequestsOf(heap[usageStore[k]]) = ledger[k].requests
        /\ k[1] \notin nonFree
             => MessagesOf(heap[usageStore[k]]) <= FreeMaxMessagesPerDay

\* C15: when the handler serves a request as premium, the gate reads the
\* tier premium and lets the request pass, and the decorator reads the tier
\* premium and reports the limit 'unlimited'.
C15SameTierEverywhere ==
    (last.op \in {"route", "complete"} /\ HandlerTier(last.req) = "premium")
    => /\ GateUserContextTier(last.req) = "premium"
       /\ DecoratorTier(last.req) = "premium"
       /\ last.op = "route" => last.verdict = "passed"
       /\ last.resp.usage.present => last.resp.usage.limit = Unlimited

\* C16: a step that answers a screenshot or scam request of tier free,
\* premium or family with 403 and requiresPremium, from the gate or from
\* the handler, changes no counter and no totalCost.
C16RefusedImageNotCounted ==
    [][(/\ arrivals' # arrivals
        /\ ImageRequest(last'.req)
        /\ last'.req.ctxTier \in {"free", "premium", "family"}
        /\ last'.resp.status = 403
        /\ last'.resp.requiresPremium)
       => CountersKept]_vars

====
